---- MODULE Spec2Model ----
(***************************************************************************)
(* A model of regex-analyzer: the GroupTree/GroupVec flattening            *)
(* (src/src/pattern.rs), the PatternCounter and PatternMatcher analyzers,  *)
(* the configuration loader parse_input (src/src/lib.rs) and the driver    *)
(* loop of src/src/main.rs.                                                *)
(*                                                                         *)
(* Text is modelled as sequences of character codes, so that the derived   *)
(* ordering of String (lexicographic on bytes) and the character classes   *)
(* of the regexes are computed the way the program computes them.          *)
(***************************************************************************)
EXTENDS Integers, Sequences, FiniteSets

VARIABLES
    pc,         \* position of the driver
    mode,       \* the strategy chosen for the run: "count" or "match"
    forest,     \* the Vec<GroupTree<Pattern>> handed to PatternCounter::new / PatternMatcher::new
    top,        \* PatternMatcher.top
    patterns,   \* the analyzer's GroupVec<Inner>: [inner, flattened]
    lines,      \* the lines submitted to analyze so far
    stdout,     \* the process's standard output, a sequence of printed lines
    writer,     \* the content of the writer handed to format
    doc,        \* the configuration document read by parse_input
    result,     \* the outcome of parse_input
    files,      \* main: the input files, each a sequence of lines
    fileNo,     \* main: number of files taken from cli.files so far
    lineNo,     \* analyze_file: number of lines read from the current file
    flat,       \* main: the Vec<Pattern> parsed from the patterns file (counts 0)
    cur,        \* analyze_file: the Vec<Pattern> being counted for the current file
    reports     \* main: per finished file, the Vec<Pattern> that print_results printed

vars == <<pc, mode, forest, top, patterns, lines, stdout, writer, doc, result,
          files, fileNo, lineNo, flat, cur, reports>>

----------------------------------------------------------------------------
(* Bounds of the model *)

\* the largest number of nodes (leaves and groups) of an input forest
MaxNodes == 3
\* the largest number of analyze calls on one analyzer
MaxLines == 2
\* the largest value of the `top` cutoff
MaxTop == 1
\* the deepest nesting of groups in a configuration document
MaxDepth == 1
\* the largest number of input files of one run, and of lines in one file
MaxFiles == 2
MaxFileLines == 2

----------------------------------------------------------------------------
(* Text *)

Min(a, b) == IF a < b THEN a ELSE b

\* the permutations of a finite set, as sequences: the orders in which a
\* HashMap may hand out its entries
Perms(S) ==
    {p \in [1..Cardinality(S) -> S] : \A i, j \in 1..Cardinality(S) : i # j => p[i] # p[j]}

\* Ordering::Less / Equal / Greater as -1 / 0 / 1
CmpInt(a, b) == IF a < b THEN -1 ELSE IF a = b THEN 0 ELSE 1

\* <String as Ord>::cmp: lexicographic on the bytes, a proper prefix is less
RECURSIVE CmpStr(_, _)
CmpStr(a, b) ==
    IF a = <<>> /\ b = <<>> THEN 0
    ELSE IF a = <<>> THEN -1
    ELSE IF b = <<>> THEN 1
    ELSE IF Head(a) # Head(b) THEN CmpInt(Head(a), Head(b))
    ELSE CmpStr(Tail(a), Tail(b))

----------------------------------------------------------------------------
(* Regex: the subset of the regex crate the model's patterns use.  A       *)
(* compiled regex is a character class, taken once ("one") or one or more  *)
(* times, greedily ("plus").                                               *)

Digits == 48..57
Lower  == 97..122

\* Regex::new on the pattern texts of the model; "(" is an unclosed group
RegexNew(text) ==
    IF text = "[0-9]+" THEN [ok |-> TRUE, regex |-> [kind |-> "plus", class |-> Digits]]
    ELSE IF text = "[a-z]" THEN [ok |-> TRUE, regex |-> [kind |-> "one", class |-> Lower]]
    ELSE [ok |-> FALSE, error |-> text]

\* the end of the leftmost match starting at position i (i is in the class)
RECURSIVE MatchEnd(_, _, _)
MatchEnd(re, line, i) ==
    IF re.kind = "plus" /\ i < Len(line) /\ line[i + 1] \in re.class
    THEN MatchEnd(re, line, i + 1)
    ELSE i

\* Regex::find_iter from position i on: the successive leftmost,
\* non-overlapping matches, as the matched texts (Match::as_str)
RECURSIVE FindFrom(_, _, _)
FindFrom(re, line, i) ==
    IF i > Len(line) THEN <<>>
    ELSE IF line[i] \in re.class
         THEN LET e == MatchEnd(re, line, i)
              IN  <<SubSeq(line, i, e)>> \o FindFrom(re, line, e + 1)
         ELSE FindFrom(re, line, i + 1)

find_iter(re, line) == FindFrom(re, line, 1)

\* Regex::is_match: scans for the first position where a match starts
RECURSIVE MatchFrom(_, _, _)
MatchFrom(re, line, i) ==
    IF i > Len(line) THEN FALSE
    ELSE IF line[i] \in re.class THEN TRUE
    ELSE MatchFrom(re, line, i + 1)

is_match(re, line) == MatchFrom(re, line, 1)

----------------------------------------------------------------------------
(* GroupTree<T> and its derived ordering *)

Leaf(v) == [tag |-> "Leaf", val |-> v]
Group(n, g) == [tag |-> "Group", name |-> n, group |-> g]

\* #[derive(PartialOrd, Ord)] on GroupTree<usize>: variants in declaration
\* order (Leaf before Group), then the fields in order; Vec compares
\* lexicographically
RECURSIVE CmpTree(_, _), CmpVec(_, _)
CmpTree(a, b) ==
    IF a.tag = "Leaf" /\ b.tag = "Leaf" THEN CmpInt(a.val, b.val)
    ELSE IF a.tag = "Leaf" THEN -1
    ELSE IF b.tag = "Leaf" THEN 1
    ELSE IF CmpStr(a.name, b.name) # 0 THEN CmpStr(a.name, b.name)
    ELSE CmpVec(a.group, b.group)
CmpVec(a, b) ==
    IF a = <<>> /\ b = <<>> THEN 0
    ELSE IF a = <<>> THEN -1
    ELSE IF b = <<>> THEN 1
    ELSE IF CmpTree(Head(a), Head(b)) # 0 THEN CmpTree(Head(a), Head(b))
    ELSE CmpVec(Tail(a), Tail(b))

\* one step of the stable sort: x goes after the elements not greater than it
RECURSIVE InsertSorted(_, _)
InsertSorted(x, s) ==
    IF s = <<>> THEN <<x>>
    ELSE IF CmpTree(x, Head(s)) < 0 THEN <<x>> \o s
    ELSE <<Head(s)>> \o InsertSorted(x, Tail(s))

RECURSIVE SortedInsertAll(_, _)
SortedInsertAll(s, acc) ==
    IF s = <<>> THEN acc ELSE SortedInsertAll(Tail(s), InsertSorted(Head(s), acc))

NoSort(v) == v

\* Vec::sort on a Vec<GroupTree<usize>>
SortVec(v) == SortedInsertAll(v, <<>>)

----------------------------------------------------------------------------
(* GroupVec<V>::from_tree *)

\* group::From<Pattern> for counter::Inner and for matcher::Inner
CounterFrom(other) == [pattern |-> other, count |-> 0]
MatcherFrom(other) == [pattern |-> other, matches |-> <<>>]
From(conv, other) == IF conv = "count" THEN CounterFrom(other) ELSE MatcherFrom(other)

LeafIndexOffByOne(vec) == Len(vec)

\* the index of the value just pushed: vec.len() - 1
LeafIndex(vec) == Len(vec) - 1

\* the inner fn traverse of from_tree; vec is threaded through as the
\* &mut Vec<V> is.  traverseGroup is the `for item in group` loop.
RECURSIVE traverse(_, _, _), traverseGroup(_, _, _)
traverse(conv, tree, vec) ==
    IF tree.tag = "Leaf"
    THEN LET pushed == Append(vec, From(conv, tree.val))
         IN  [tree |-> Leaf(LeafIndex(pushed)), vec |-> pushed]
    ELSE LET r == traverseGroup(conv, tree.group, vec)
         IN  [tree |-> Group(tree.name, SortVec(r.trees)), vec |-> r.vec]
traverseGroup(conv, group, vec) ==
    IF group = <<>> THEN [trees |-> <<>>, vec |-> vec]
    ELSE LET h == traverse(conv, Head(group), vec)
             t == traverseGroup(conv, Tail(group), h.vec)
         IN  [trees |-> <<h.tree>> \o t.trees, vec |-> t.vec]

from_tree(conv, tree_vec) ==
    LET r == traverseGroup(conv, tree_vec, <<>>)
    IN  [inner |-> SortVec(r.trees), flattened |-> r.vec]

\* slice.get(index): indices are 0-based
Get(slice, index) == slice[index + 1]

----------------------------------------------------------------------------
(* Printed text *)

RECURSIVE Spaces(_)
Spaces(n) == IF n <= 0 THEN <<>> ELSE <<32>> \o Spaces(n - 1)

\* the decimal digits of n (Display for an unsigned integer)
RECURSIVE Dec(_)
Dec(n) == IF n < 10 THEN <<48 + n>> ELSE Dec(n \div 10) \o <<48 + (n % 10)>>

\* num_format's to_formatted_string(&Locale::en): groups of three digits
\* separated by ','
RECURSIVE ToFormattedString(_)
ToFormattedString(n) ==
    IF n < 1000 THEN Dec(n)
    ELSE LET r == n % 1000
         IN  ToFormattedString(n \div 1000) \o <<44>>
             \o (IF r < 10 THEN <<48, 48>> ELSE IF r < 100 THEN <<48>> ELSE <<>>) \o Dec(r)

\* {:<width$} and {:>width$}
PadRight(s, width) == s \o Spaces(width - Len(s))
PadLeft(s, width) == Spaces(width - Len(s)) \o s

----------------------------------------------------------------------------
(* PatternCounter *)

CounterNew(tree) == from_tree("count", tree)

CountOccurrences(inner, line) ==
    [inner EXCEPT !.count = @ + Len(find_iter(inner.pattern.regex, line))]

\* the body of the loop of PatternCounter::analyze
CountLine(inner, line) ==
    IF is_match(inner.pattern.regex, line) THEN [inner EXCEPT !.count = @ + 1] ELSE inner

CounterAnalyze(gv, line) ==
    [gv EXCEPT !.flattened = [i \in 1..Len(gv.flattened) |-> CountLine(gv.flattened[i], line)]]

\* the indentation added per level: traverse(inner_tree, slice, indent + 2)
IndentStep == 2

\* the inner fn traverse of PatternCounter::format: the lines it prints
RECURSIVE CounterTraverse(_, _, _), CounterTraverseAll(_, _, _)
CounterTraverse(tree, slice, indent) ==
    IF tree.tag = "Leaf"
    THEN LET inner == Get(slice, tree.val)
         IN  << Spaces(indent) \o inner.pattern.name \o <<58>> \o <<32>>
                \o ToFormattedString(inner.count) >>
    ELSE << tree.name \o <<58>> >> \o CounterTraverseAll(tree.group, slice, indent + IndentStep)
CounterTraverseAll(group, slice, indent) ==
    IF group = <<>> THEN <<>>
    ELSE CounterTraverse(Head(group), slice, indent) \o CounterTraverseAll(Tail(group), slice, indent)

\* what PatternCounter::format prints (longest_name and longest_count are
\* computed and never used)
CounterFormat(gv) == CounterTraverseAll(gv.inner, gv.flattened, 0)

----------------------------------------------------------------------------
(* PatternMatcher *)

MatcherNew(tree, t) == from_tree("match", tree)

EntryOverwrite(matches, key) ==
    [k \in (DOMAIN matches) \cup {key} |-> IF k = key THEN 1 ELSE matches[k]]

\* *matches.entry(key).or_insert(0) += 1
EntryIncrement(matches, key) ==
    [k \in (DOMAIN matches) \cup {key} |->
        IF k = key THEN (IF key \in DOMAIN matches THEN matches[key] ELSE 0) + 1
        ELSE matches[k]]

\* the loop over find_iter of PatternMatcher::analyze
RECURSIVE RecordMatches(_, _)
RecordMatches(matches, found) ==
    IF found = <<>> THEN matches
    ELSE RecordMatches(EntryIncrement(matches, Head(found)), Tail(found))

MatchLine(inner, line) ==
    [inner EXCEPT !.matches = RecordMatches(@, find_iter(inner.pattern.regex, line))]

MatcherAnalyze(gv, line) ==
    [gv EXCEPT !.flattened = [i \in 1..Len(gv.flattened) |-> MatchLine(gv.flattened[i], line)]]

TakeAll(s, n) == s

\* Iterator::take(n)
Take(s, n) == SubSeq(s, 1, Min(n, Len(s)))

Max(a, b) == IF a < b THEN b ELSE a

RECURSIVE MaxOver(_)
MaxOver(s) == IF s = <<>> THEN 0 ELSE Max(Head(s), MaxOver(Tail(s)))

\* what PatternMatcher::format prints; order[i] is the order in which the
\* HashMap of the i-th pattern hands out its keys
MatcherFormat(gv, t, order) ==
    LET n == Len(gv.flattened)
        shown(i) == Take(order[i], t)
        \* the first loop: longest_count over the entries taken, longest_match
        \* over the names of the patterns that have an entry taken
        longest_count ==
            MaxOver([i \in 1..n |->
                MaxOver([j \in 1..Len(shown(i)) |->
                    Len(ToFormattedString(gv.flattened[i].matches[shown(i)[j]]))])])
        longest_match ==
            MaxOver([i \in 1..n |->
                IF shown(i) = <<>> THEN 0 ELSE Len(gv.flattened[i].pattern.name)])
        match_len == longest_match + 1
        count_len == longest_count
        \* "\t{:<match_len$} {} {:>count_len$}": the third placeholder takes
        \* the next argument, which is the named argument match_len
        entry(i, j) ==
            <<9>> \o PadRight(shown(i)[j] \o <<58>>, match_len) \o <<32>>
            \o ToFormattedString(gv.flattened[i].matches[shown(i)[j]]) \o <<32>>
            \o PadLeft(Dec(match_len), count_len)
        section(i) == <<gv.flattened[i].pattern.name>> \o [j \in 1..Len(shown(i)) |-> entry(i, j)]
        RECURSIVE sections(_)
        sections(i) == IF i > n THEN <<>> ELSE section(i) \o sections(i + 1)
    IN  sections(1)

\* the orders in which the HashMaps of the patterns may iterate
Orders(gv) ==
    LET n == Len(gv.flattened)
        all == UNION {Perms(DOMAIN gv.flattened[i].matches) : i \in 1..n}
    IN  {o \in [1..n -> all] : \A i \in 1..n : o[i] \in Perms(DOMAIN gv.flattened[i].matches)}

----------------------------------------------------------------------------
(* Inputs *)

\* the patterns of the leaves: d: "[0-9]+" and w: "[a-z]"
LeafPatterns ==
    { [name |-> <<100>>, regex |-> RegexNew("[0-9]+").regex],
      [name |-> <<119>>, regex |-> RegexNew("[a-z]").regex] }

\* the names of the groups: "n" and "ne"
GroupNames == { <<110>>, <<110, 101>> }

\* the input forests with exactly n nodes
RECURSIVE TreesOfSize(_), ForestsOfSize(_)
TreesOfSize(n) ==
    (IF n = 1 THEN {Leaf(p) : p \in LeafPatterns} ELSE {})
    \cup (IF n >= 1 THEN {Group(g, f) : g \in GroupNames, f \in ForestsOfSize(n - 1)} ELSE {})
ForestsOfSize(n) ==
    IF n = 0 THEN { <<>> }
    ELSE UNION { {<<t>> \o f : t \in TreesOfSize(k), f \in ForestsOfSize(n - k)} : k \in 1..n }

Forests == UNION {ForestsOfSize(n) : n \in 0..MaxNodes}

\* the lines submitted: "11", "aa", "1 1"
Lines == { <<49, 49>>, <<97, 97>>, <<49, 32, 49>> }

Modes == {"count", "match"}

NoGroupVec == [inner |-> <<>>, flattened |-> <<>>]

----------------------------------------------------------------------------
(* count_file / match_file on one input: construct the analyzer, feed it   *)
(* the lines, format the report.                                           *)

Idle ==
    /\ doc = <<>> /\ result = <<>>
    /\ files = <<>> /\ fileNo = 0 /\ lineNo = 0
    /\ flat = <<>> /\ cur = <<>> /\ reports = <<>>

Init ==
    /\ pc = "new"
    /\ mode \in Modes
    /\ forest \in Forests
    /\ top \in (IF mode = "match" THEN 0..MaxTop ELSE {0})
    /\ patterns = NoGroupVec
    /\ lines = <<>>
    /\ stdout = <<>>
    /\ writer = <<>>
    /\ Idle

\* PatternCounter::new / PatternMatcher::new
New ==
    /\ pc = "new"
    /\ patterns' = (IF mode = "count" THEN CounterNew(forest) ELSE MatcherNew(forest, top))
    /\ pc' = "ready"
    /\ UNCHANGED <<mode, forest, top, lines, stdout, writer, doc, result,
                   files, fileNo, lineNo, flat, cur, reports>>

\* Analyzer::analyze(line)
Analyze ==
    /\ pc = "ready"
    /\ Len(lines) < MaxLines
    /\ \E line \in Lines :
        /\ patterns' = (IF mode = "count" THEN CounterAnalyze(patterns, line)
                                           ELSE MatcherAnalyze(patterns, line))
        /\ lines' = Append(lines, line)
    /\ UNCHANGED <<pc, mode, forest, top, stdout, writer, doc, result,
                   files, fileNo, lineNo, flat, cur, reports>>

\* Analyzer::format(writer): both implementations print with println! and
\* leave _writer alone
Format ==
    /\ pc = "ready"
    /\ \/ /\ mode = "count"
          /\ stdout' = stdout \o CounterFormat(patterns)
       \/ /\ mode = "match"
          /\ \E order \in Orders(patterns) :
                stdout' = stdout \o MatcherFormat(patterns, top, order)
    /\ pc' = "done"
    /\ UNCHANGED <<mode, forest, top, patterns, lines, writer, doc, result,
                   files, fileNo, lineNo, flat, cur, reports>>

Next == New \/ Analyze \/ Format

Spec == Init /\ [][Next]_vars

----------------------------------------------------------------------------
(* Vocabulary of the properties *)

Constructed == pc \in {"ready", "done"}

Range(s) == {s[i] : i \in 1..Len(s)}

\* the multiset of the elements of a sequence
BagOfSeq(s) == [x \in Range(s) |-> Cardinality({i \in 1..Len(s) : s[i] = x})]

\* the payloads of the leaves of a forest, depth first
RECURSIVE LeavesOf(_)
LeavesOf(f) ==
    IF f = <<>> THEN <<>>
    ELSE (IF Head(f).tag = "Leaf" THEN <<Head(f).val>> ELSE LeavesOf(Head(f).group))
         \o LeavesOf(Tail(f))

NamesOf(ps) == [i \in 1..Len(ps) |-> ps[i].name]

\* a regex's language, and the occurrences find_iter is documented to
\* yield: a run of the class cannot be extended on either side
InLanguage(re, s) ==
    /\ s # <<>>
    /\ \A i \in 1..Len(s) : s[i] \in re.class
    /\ re.kind = "one" => Len(s) = 1

MatchesAnywhere(re, line) ==
    \E a \in 1..Len(line) : \E b \in a..Len(line) : InLanguage(re, SubSeq(line, a, b))

Occurrences(re, ls) ==
    { o \in UNION { {<<k, a, b>> : a \in 1..Len(ls[k]), b \in 1..Len(ls[k])} : k \in 1..Len(ls) } :
        LET line == ls[o[1]]
            a == o[2]
            b == o[3]
        IN  /\ a <= b
            /\ InLanguage(re, SubSeq(line, a, b))
            /\ re.kind = "plus" =>
                  /\ (a = 1 \/ line[a - 1] \notin re.class)
                  /\ (b = Len(line) \/ line[b + 1] \notin re.class) }

TextOf(ls, o) == SubSeq(ls[o[1]], o[2], o[3])

RECURSIVE SumValues(_)
SumValues(m) ==
    IF DOMAIN m = {} THEN 0
    ELSE LET k == CHOOSE x \in DOMAIN m : TRUE
         IN  m[k] + SumValues([x \in (DOMAIN m) \ {k} |-> m[x]])

----------------------------------------------------------------------------
(* C1: flattening round trip.  Once the analyzer is constructed, and after *)
(* any analyze and format calls, flattened has one entry per leaf of the   *)
(* input forest, every index of the shadow tree is a position of           *)
(* flattened, and the names reached through the shadow tree are the names  *)
(* of the input's leaves, as multisets.                                    *)
FlatteningRoundTrip ==
    Constructed =>
        LET idx == LeavesOf(patterns.inner)
            n == Len(patterns.flattened)
        IN  /\ n = Len(LeavesOf(forest))
            /\ \A k \in 1..Len(idx) : idx[k] \in 0..(n - 1)
            /\ BagOfSeq([k \in 1..Len(idx) |-> Get(patterns.flattened, idx[k]).pattern.name])
                 = BagOfSeq(NamesOf(LeavesOf(forest)))

FlatteningWitness ==
    /\ pc = "done"
    /\ lines # <<>>
    /\ Len(patterns.flattened) = 2
    /\ \E i \in 1..Len(forest) : forest[i].tag = "Group" /\ forest[i].group # <<>>

(* C2: counter correctness.  Every pattern's count is the number of        *)
(* submitted lines in which its regex matches somewhere: a line adds 1 if  *)
(* it matches and 0 if not, however many occurrences it holds.             *)
CounterCorrect ==
    (Constructed /\ mode = "count") =>
        \A i \in 1..Len(patterns.flattened) :
            patterns.flattened[i].count =
                Cardinality({k \in 1..Len(lines) :
                    MatchesAnywhere(patterns.flattened[i].pattern.regex, lines[k])})

CounterWitness ==
    /\ pc = "ready" /\ mode = "count" /\ Len(lines) = 2
    /\ \E i \in 1..Len(patterns.flattened) :
        /\ patterns.flattened[i].count = 1
        /\ Cardinality(Occurrences(patterns.flattened[i].pattern.regex, lines)) >= 2

(* C3: matcher correctness.  Every pattern's table has exactly the texts   *)
(* of the non-overlapping occurrences of its regex in the submitted lines  *)
(* as keys, each key's value is the number of occurrences with that text,  *)
(* and the values add up to the number of occurrences.                     *)
MatcherCorrect ==
    (Constructed /\ mode = "match") =>
        \A i \in 1..Len(patterns.flattened) :
            LET m == patterns.flattened[i].matches
                occ == Occurrences(patterns.flattened[i].pattern.regex, lines)
            IN  /\ DOMAIN m = {TextOf(lines, o) : o \in occ}
                /\ \A key \in DOMAIN m :
                      m[key] = Cardinality({o \in occ : TextOf(lines, o) = key})
                /\ SumValues(m) = Cardinality(occ)

MatcherWitness ==
    /\ pc = "ready" /\ mode = "match"
    /\ \E i \in 1..Len(patterns.flattened) :
        LET m == patterns.flattened[i].matches
        IN  /\ Cardinality(DOMAIN m) >= 2
            /\ \E key \in DOMAIN m : m[key] >= 2

\* the printed lines of a matcher report that are entries (they start with a tab)
IsEntry(l) == l # <<>> /\ l[1] = 9

\* the entries printed under the i-th name of the report
EntriesUnder(out, i) ==
    Cardinality({k \in 1..Len(out) :
        /\ IsEntry(out[k])
        /\ Cardinality({h \in 1..k : ~IsEntry(out[h])}) = i})

(* C8: top cutoff.  The matcher's report has one name line per pattern and *)
(* under it exactly min(top, number of keys of the table) entries, and the *)
(* tables hold every occurrence whatever top is.                           *)
TopCutoff ==
    (pc = "done" /\ mode = "match") =>
        /\ Cardinality({k \in 1..Len(stdout) : ~IsEntry(stdout[k])}) = Len(patterns.flattened)
        /\ \A i \in 1..Len(patterns.flattened) :
            /\ EntriesUnder(stdout, i) =
                  Min(top, Cardinality(DOMAIN patterns.flattened[i].matches))
            /\ EntriesUnder(stdout, i) <= top
            /\ DOMAIN patterns.flattened[i].matches =
                  {TextOf(lines, o) : o \in Occurrences(patterns.flattened[i].pattern.regex, lines)}

TopCutoffWitness ==
    /\ pc = "done" /\ mode = "match" /\ top >= 1
    /\ \E i, j \in 1..Len(patterns.flattened) :
        /\ Cardinality(DOMAIN patterns.flattened[i].matches) > top
        /\ Cardinality(DOMAIN patterns.flattened[j].matches) < top
        /\ EntriesUnder(stdout, i) = top

\* every list of a shadow tree is in order: leaves first by ascending
\* index, then groups by name, equal names by their children
RECURSIVE InOrder(_)
InOrder(v) ==
    /\ \A i \in 1..(Len(v) - 1) :
        LET a == v[i]
            b == v[i + 1]
        IN  /\ (a.tag = "Group") => (b.tag = "Group")
            /\ (a.tag = "Leaf" /\ b.tag = "Leaf") => a.val < b.val
            /\ (a.tag = "Group" /\ b.tag = "Group") =>
                  \/ CmpStr(a.name, b.name) < 0
                  \/ (a.name = b.name /\ CmpVec(a.group, b.group) <= 0)
    /\ \A i \in 1..Len(v) : (v[i].tag = "Group") => InOrder(v[i].group)

(* C10: sorted shadow tree.  After from_tree the top-level list of the     *)
(* shadow tree and the children of every group are sorted: leaves before   *)
(* groups, leaves by ascending index, groups by name and then children.    *)
SortedShadowTree == Constructed => InOrder(patterns.inner)

SortedWitness ==
    /\ pc = "ready"
    /\ \E i \in 1..Len(forest) :
        /\ forest[i].tag = "Group"
        /\ Len(forest[i].group) = 2
        /\ forest[i].group[1].tag = "Group" /\ forest[i].group[2].tag = "Leaf"

----------------------------------------------------------------------------
(* Statements the code does not meet *)

\* two forests that differ only in the order of siblings
RECURSIVE SameUpToSiblingOrder(_, _)
SameUpToSiblingOrder(f, g) ==
    /\ Len(f) = Len(g)
    /\ \E p \in Perms(1..Len(f)) :
        \A i \in 1..Len(f) :
            LET a == f[i]
                b == g[p[i]]
            IN  /\ a.tag = b.tag
                /\ IF a.tag = "Leaf" THEN a.val = b.val
                   ELSE a.name = b.name /\ SameUpToSiblingOrder(a.group, b.group)

\* the names a Counter report lists, in the order format walks the shadow tree
RECURSIVE ReportNames(_, _)
ReportNames(v, slice) ==
    IF v = <<>> THEN <<>>
    ELSE (IF Head(v).tag = "Leaf" THEN <<Get(slice, Head(v).val).pattern.name>>
          ELSE <<Head(v).name>> \o ReportNames(Head(v).group, slice))
         \o ReportNames(Tail(v), slice)

(* C4: determinism independent of the input's ordering.  Any forest that   *)
(* differs from the input only in the order of siblings flattens to the    *)
(* same shadow tree, and its Counter report lists the same names in the    *)
(* same order.                                                             *)
OrderIndependent ==
    (pc = "ready" /\ lines = <<>>) =>
        \A g \in Forests :
            SameUpToSiblingOrder(forest, g) =>
                LET other == from_tree(mode, g)
                IN  /\ other.inner = patterns.inner
                    /\ ReportNames(other.inner, other.flattened)
                         = ReportNames(patterns.inner, patterns.flattened)

\* a report in which every node is indented by its nesting level
RECURSIVE NestedReport(_, _, _, _)
NestedReport(v, slice, indent, step) ==
    IF v = <<>> THEN <<>>
    ELSE (IF Head(v).tag = "Leaf"
          THEN << Spaces(indent) \o Get(slice, Head(v).val).pattern.name \o <<58>> \o <<32>>
                  \o ToFormattedString(Get(slice, Head(v).val).count) >>
          ELSE << Spaces(indent) \o Head(v).name \o <<58>> >>
               \o NestedReport(Head(v).group, slice, indent + step, step))
         \o NestedReport(Tail(v), slice, indent, step)

\* the counter a forest yields on the lines submitted so far
RECURSIVE CounterAfter(_, _)
CounterAfter(g, ls) ==
    IF ls = <<>> THEN CounterNew(g)
    ELSE CounterAnalyze(CounterAfter(g, SubSeq(ls, 1, Len(ls) - 1)), ls[Len(ls)])

\* the nesting of a flattened forest: its shadow tree with names for indices
RECURSIVE Nesting(_, _)
Nesting(v, slice) ==
    [i \in 1..Len(v) |->
        IF v[i].tag = "Leaf" THEN Leaf(Get(slice, v[i].val).pattern.name)
        ELSE Group(v[i].name, Nesting(v[i].group, slice))]

(* C5: Counter report nesting.  The report indents every node, a group's   *)
(* header like a leaf's line, by one fixed step per nesting level, so      *)
(* forests of different nesting never print the same lines.                *)
ReportFollowsNesting ==
    (pc = "done" /\ mode = "count") =>
        /\ stdout = NestedReport(patterns.inner, patterns.flattened, 0, IndentStep)
        /\ \A g \in Forests :
            LET other == CounterAfter(g, lines)
            IN  CounterFormat(other) = stdout =>
                    Nesting(other.inner, other.flattened)
                        = Nesting(patterns.inner, patterns.flattened)

(* C7: format writes to the supplied sink.  After format the writer holds  *)
(* its previous content followed by the report, and nothing went to any    *)
(* other channel.                                                          *)
FormatWritesToWriter ==
    pc = "done" =>
        /\ stdout = <<>>
        /\ mode = "count" => writer = CounterFormat(patterns)
        /\ mode = "match" =>
              \E order \in Orders(patterns) : writer = MatcherFormat(patterns, top, order)

----------------------------------------------------------------------------
(* parse_input: the configuration document to a forest *)

\* PatternTreeHelper
HelperLeaf(text) == [tag |-> "Leaf", text |-> text]
HelperNode(map) == [tag |-> "Node", map |-> map]

\* the keys of the documents, "d" and "n", and the pattern texts
DocKeys == { <<100>>, <<110>> }
PatternTexts == { "[0-9]+", "(" }

\* HashMap<String, PatternTreeHelper> over a set of helpers
MapsTo(H) == UNION { [S -> H] : S \in SUBSET DocKeys }

RECURSIVE Helpers(_)
Helpers(depth) ==
    {HelperLeaf(t) : t \in PatternTexts}
    \cup (IF depth = 0 THEN {} ELSE {HelperNode(m) : m \in MapsTo(Helpers(depth - 1))})

Documents == MapsTo(Helpers(MaxDepth))

Ok(v) == [kind |-> "Ok", value |-> v]
Err(e) == [kind |-> "Err", error |-> e]
Panic == [kind |-> "Panic"]

\* Result::unwrap: the value of an Ok, a panic on an Err
Unwrap(r) == IF r.kind = "Ok" THEN r.value ELSE Panic

\* the inner fn traverse of parse_input: the outcomes it can have, one per
\* iteration order of the maps
RECURSIVE ParseTraverse(_, _)
ParseTraverse(name, tree) ==
    IF tree.tag = "Leaf"
    THEN LET r == RegexNew(tree.text)
         IN  IF r.ok THEN {Ok(Leaf([name |-> name, regex |-> r.regex]))}
             ELSE {Err(r.error)}
    ELSE LET n == Cardinality(DOMAIN tree.map)
             every == UNION {ParseTraverse(k, tree.map[k]) : k \in DOMAIN tree.map}
             \* map.iter().map(..).partition(Result::is_ok) runs every child
             outcome(order, rs) ==
                IF \E i \in 1..n : rs[i].kind = "Panic" THEN Panic
                ELSE LET oks == {i \in 1..n : rs[i].kind = "Ok"}
                         invalid == {Unwrap(rs[i]) : i \in (1..n) \ oks}
                     IN  IF Panic \in invalid THEN Panic
                         ELSE IF invalid # {} THEN Err(invalid)
                         ELSE Ok(Group(name, [i \in 1..n |-> Unwrap(rs[i])]))
         IN  { outcome(order, rs) :
                 <<order, rs>> \in
                   { x \in Perms(DOMAIN tree.map) \X [1..n -> every] :
                       \A i \in 1..n : x[2][i] \in ParseTraverse(x[1][i], tree.map[x[1][i]]) } }

\* collect::<Result<Vec<_>, String>>() over the entries in iteration
\* order: the first Err ends the iteration, and the entries after it are
\* not traversed
RECURSIVE CollectFrom(_, _, _, _)
CollectFrom(map, order, i, acc) ==
    IF i > Len(order) THEN {Ok(acc)}
    ELSE UNION { IF r.kind = "Ok" THEN CollectFrom(map, order, i + 1, Append(acc, r.value))
                 ELSE {r} :
                 r \in ParseTraverse(order[i], map[order[i]]) }

parse_input(pattern_tree) ==
    UNION { CollectFrom(pattern_tree, order, 1, <<>>) : order \in Perms(DOMAIN pattern_tree) }

InitParse ==
    /\ pc = "parse"
    /\ doc \in Documents
    /\ result = <<>>
    /\ mode = "count" /\ forest = <<>> /\ top = 0 /\ patterns = NoGroupVec
    /\ lines = <<>> /\ stdout = <<>> /\ writer = <<>>
    /\ files = <<>> /\ fileNo = 0 /\ lineNo = 0
    /\ flat = <<>> /\ cur = <<>> /\ reports = <<>>

Parse ==
    /\ pc = "parse"
    /\ result' \in parse_input(doc)
    /\ pc' = "parsed"
    /\ UNCHANGED <<mode, forest, top, patterns, lines, stdout, writer, doc,
                   files, fileNo, lineNo, flat, cur, reports>>

NextParse == Parse

SpecParse == InitParse /\ [][NextParse]_vars

\* the pattern texts of a document, at any depth, that do not compile
RECURSIVE InvalidLeaves(_)
InvalidLeaves(map) ==
    UNION { IF map[k].tag = "Leaf"
            THEN (IF RegexNew(map[k].text).ok THEN {} ELSE {map[k].text})
            ELSE InvalidLeaves(map[k].map) : k \in DOMAIN map }

(* C6: a regex that fails to compile is an error value.  When a leaf at    *)
(* any depth of the document does not compile, parse_input returns an Err  *)
(* that names an offending pattern; it does not panic and returns no       *)
(* forest.                                                                 *)
CompileFailureIsErr ==
    (pc = "parsed" /\ InvalidLeaves(doc) # {}) =>
        /\ result.kind = "Err"
        /\ result.error \in InvalidLeaves(doc)

----------------------------------------------------------------------------
(* main: one run over the files of the command line *)

\* Pattern::new of main.rs
PatternNew(name, pattern_string) ==
    LET r == RegexNew(pattern_string)
    IN  IF r.ok THEN Ok([name |-> name, pattern |-> r.regex, count |-> 0])
        ELSE Err(<<"Unable to create regex from", pattern_string, r.error>>)

\* the patterns file of the run: d: "[0-9]+" and w: "[a-z]"
PatternsFile == { <<<<100>>, "[0-9]+">>, <<<<119>>, "[a-z]">> }

\* Pattern::parse_from_file: the entries in the HashMap's iteration order
ParsedPatterns ==
    { [i \in 1..Len(order) |-> PatternNew(order[i][1], order[i][2]).value] :
        order \in Perms(PatternsFile) }

\* the lines of the input files: "11", "a1a"
FileLines == { <<49, 49>>, <<97, 49, 97>> }

SeqsUpTo(S, n) == UNION { [1..k -> S] : k \in 0..n }

\* an input file: its base name ("f") and its lines
InputFiles == { [name |-> <<102>>, lines |-> ls] : ls \in SeqsUpTo(FileLines, MaxFileLines) }

CarryOver(parsed, previous) == IF previous = <<>> THEN parsed ELSE previous

\* patterns.to_vec(): the copy of the parsed patterns handed to analyze_file
ToVec(parsed, previous) == parsed

\* the loop body of analyze_file
AnalyzeFileLine(ps, line) ==
    [i \in 1..Len(ps) |->
        IF is_match(ps[i].pattern, line) THEN [ps[i] EXCEPT !.count = @ + 1] ELSE ps[i]]

\* patterns.sort_by(|lhs, rhs| rhs.count.cmp(&lhs.count)): stable, by
\* descending count
RECURSIVE InsertByCount(_, _)
InsertByCount(x, s) ==
    IF s = <<>> THEN <<x>>
    ELSE IF CmpInt(Head(s).count, x.count) < 0 THEN <<x>> \o s
    ELSE <<Head(s)>> \o InsertByCount(x, Tail(s))

RECURSIVE SortByCount(_, _)
SortByCount(s, acc) ==
    IF s = <<>> THEN acc ELSE SortByCount(Tail(s), InsertByCount(Head(s), acc))

\* what print_results prints for the sorted patterns
print_results(ps) ==
    LET longest_name == MaxOver([i \in 1..Len(ps) |-> Len(ps[i].name)])
        longest_count == MaxOver([i \in 1..Len(ps) |-> Len(ToFormattedString(ps[i].count))])
    IN  [i \in 1..Len(ps) |->
            PadRight(ps[i].name \o <<58>>, longest_name + 1) \o <<32>>
            \o PadLeft(ToFormattedString(ps[i].count), longest_count)]

InitRun ==
    /\ pc = "run"
    /\ flat \in ParsedPatterns
    /\ files \in SeqsUpTo(InputFiles, MaxFiles)
    /\ fileNo = 0 /\ lineNo = 0
    /\ cur = <<>> /\ reports = <<>>
    /\ stdout = <<>>
    /\ mode = "count" /\ forest = <<>> /\ top = 0 /\ patterns = NoGroupVec
    /\ lines = <<>> /\ writer = <<>> /\ doc = <<>> /\ result = <<>>

\* main takes the next file and calls analyze_file on a copy of the patterns
StartFile ==
    /\ pc = "run"
    /\ fileNo < Len(files)
    /\ fileNo' = fileNo + 1
    /\ lineNo' = 0
    /\ cur' = ToVec(flat, cur)
    /\ pc' = "file"
    /\ UNCHANGED <<mode, forest, top, patterns, lines, stdout, writer, doc, result,
                   files, flat, reports>>

\* analyze_file reads one line and counts it
ReadLine ==
    /\ pc = "file"
    /\ lineNo < Len(files[fileNo].lines)
    /\ lineNo' = lineNo + 1
    /\ cur' = AnalyzeFileLine(cur, files[fileNo].lines[lineNo + 1])
    /\ UNCHANGED <<pc, mode, forest, top, patterns, lines, stdout, writer, doc, result,
                   files, fileNo, flat, reports>>

\* analyze_file returns; main prints the header, the results and a blank line
FinishFile ==
    /\ pc = "file"
    /\ lineNo = Len(files[fileNo].lines)
    /\ LET sorted == SortByCount(cur, <<>>)
       IN  /\ cur' = sorted
           /\ reports' = Append(reports, sorted)
           /\ stdout' = stdout
                  \o << <<61, 61, 61, 61, 32>> \o files[fileNo].name \o <<32, 61, 61, 61, 61>> >>
                  \o print_results(sorted)
                  \o << <<>> >>
    /\ pc' = "run"
    /\ UNCHANGED <<mode, forest, top, patterns, lines, writer, doc, result,
                   files, fileNo, lineNo, flat>>

NextRun == StartFile \/ ReadLine \/ FinishFile

SpecRun == InitRun /\ [][NextRun]_vars

\* the number of lines of a file in which a regex matches
MatchingLines(re, ls) == Cardinality({j \in 1..Len(ls) : MatchesAnywhere(re, ls[j])})

(* C9: no carry-over between files.  Every file starts from counts of 0,   *)
(* and the counts reported for a file are those of its own lines alone,    *)
(* whichever files were processed before it.                               *)
NoCarryOver ==
    /\ (pc = "file" /\ lineNo = 0) => \A i \in 1..Len(cur) : cur[i].count = 0
    /\ \A k \in 1..Len(reports) :
        /\ Len(reports[k]) = Len(flat)
        /\ \A i \in 1..Len(reports[k]) :
            reports[k][i].count = MatchingLines(reports[k][i].pattern, files[k].lines)

NoCarryOverWitness ==
    /\ Len(reports) = 2
    /\ \E i, j \in 1..Len(flat) :
        /\ reports[1][i].name = reports[2][j].name
        /\ reports[1][i].count = 2
        /\ reports[2][j].count = 0

====
